---- MODULE Spec2Model ----
(***************************************************************************)
(* A model of SubtitleTool.py: SubtitleProcessor.translate_subtitles (the   *)
(* line classifier, the batches of five chunks and the writes to the        *)
(* output file), generate_subtitles_with_whisper, extract_subtitles_from_mkv *)
(* and _format_time.                                                        *)
(*                                                                          *)
(* A text (a str of the program) is a sequence of one-character strings; a  *)
(* file read line by line is a sequence of such texts, each one ending with *)
(* its newline, as Python's iteration over a file yields them.              *)
(***************************************************************************)
EXTENDS Integers, Sequences, FiniteSets, TLC

VARIABLES
    op,               \* the operation the caller invoked
    pc,               \* the position inside that operation
    openai_client,    \* self.openai_client is set (TRUE) or None (FALSE)
    exists,           \* os.path.exists(input_path) / os.path.exists(video_path)
    infile,           \* the lines of the file at input_path
    pos,              \* the number of lines the for loop has consumed
    dialogue_blocks,  \* the local list of closed chunks
    current_block,    \* the local str of the open chunk
    outfile,          \* the content of the file at output_path, or NoFile
    request,          \* the payload of the _translate_block call in flight
    batches,          \* history: dialogue_blocks at every _translate_block call
    responses,        \* history: what every returned call returned
    error,            \* the failure the operation printed, or "none"
    result,           \* what the operation handed to its caller
    seconds,          \* input of _format_time
    formatted,        \* output of _format_time
    segments,         \* result["segments"] of the transcription model
    audio,            \* the temporary wav file exists
    tracks,           \* the track ids left to extract
    extracted         \* extracted_subtitles

vars == << op, pc, openai_client, exists, infile, pos, dialogue_blocks,
           current_block, outfile, request, batches, responses, error, result,
           seconds, formatted, segments, audio, tracks, extracted >>

----------------------------------------------------------------------------
(* Bounds of the model.                                                     *)

\* the longest input file, in lines
MaxLines == 11
\* the most lines of a file that are not the index line "1"
MaxExtra == 2

----------------------------------------------------------------------------
(* Texts.                                                                   *)

NoFile == "absent"
None == "None"
Pending == "pending"

Digit == {"0", "1", "2", "3", "4", "5", "6", "7", "8", "9"}
Whitespace == {" ", "\n"}

RECURSIVE lstrip(_)
lstrip(s) == IF s # <<>> /\ Head(s) \in Whitespace THEN lstrip(Tail(s)) ELSE s

RECURSIVE rstrip(_)
rstrip(s) ==
    IF s # <<>> /\ s[Len(s)] \in Whitespace
    THEN rstrip(SubSeq(s, 1, Len(s) - 1))
    ELSE s

\* str.strip()
strip(s) == rstrip(lstrip(s))

\* str.isdigit(): not empty and every character a digit
isdigit(s) == s # <<>> /\ \A i \in 1..Len(s) : s[i] \in Digit

\* "-->" in line
HasArrow(s) ==
    \E i \in 1..(Len(s) - 2) : s[i] = "-" /\ s[i + 1] = "-" /\ s[i + 2] = ">"

\* "\n".join(blocks)
RECURSIVE join(_)
join(blocks) ==
    IF blocks = <<>> THEN <<>>
    ELSE IF Len(blocks) = 1 THEN blocks[1]
    ELSE blocks[1] \o <<"\n">> \o join(Tail(blocks))

----------------------------------------------------------------------------
(* translate_subtitles.                                                     *)

\* the batch size the loop tests for
BatchSize == 5

IndexLine == <<"1", "\n">>
TimeLine == <<"-", "-", ">", "\n">>
BlankLine == <<" ", "\n">>
TextLine == <<"H", "i", "\n">>
ExtraLines == {TimeLine, BlankLine, TextLine}

\* the files of n lines of which at most e are not the index line
RECURSIVE FilesOf(_, _)
FilesOf(n, e) ==
    IF n = 0 THEN {<<>>}
    ELSE {Append(f, IndexLine) : f \in FilesOf(n - 1, e)}
         \cup (IF e = 0 THEN {}
               ELSE {Append(f, x) : f \in FilesOf(n - 1, e - 1), x \in ExtraLines})

InputFiles == UNION {FilesOf(n, MaxExtra) : n \in 0..MaxLines}

\* what the external translation call may return
Responses == {<<" ", "T", "\n">>, <<"U">>}

OldOutput == <<"o", "l", "d">>

\* a classifier that appends a blank line to the open chunk
ClassifyCurrent_KeepsBlank(line, cur) ==
    IF isdigit(strip(line)) THEN line ELSE cur \o line

\* lines 128-138: the open chunk after the line
ClassifyCurrent(line, cur) ==
    IF isdigit(strip(line)) THEN line
    ELSE IF HasArrow(line) THEN cur \o line
    ELSE IF strip(line) = <<>> THEN cur
    ELSE cur \o line

\* lines 128-131: the closed chunks after the line
ClassifyBlocks(line, cur, blocks) ==
    IF isdigit(strip(line)) /\ cur # <<>> THEN Append(blocks, cur) ELSE blocks

\* a test that sends the batch one chunk late
BatchFull_Late(blocks) == Len(blocks) = BatchSize + 1

\* a test that sends the batch one chunk early
BatchFull_Early(blocks) == Len(blocks) = BatchSize - 1

\* line 140: the test that sends a batch from inside the loop
BatchFull(blocks) == Len(blocks) = BatchSize

\* an end of input that forgets the open chunk
CloseLast_Dropped(cur, blocks) == blocks

\* lines 148-149: the chunk still open at the end of the input is closed
CloseLast(cur, blocks) == IF cur # <<>> THEN Append(blocks, cur) ELSE blocks

\* a flush that writes the separator of the loop
FlushSeparator_Double == <<"\n", "\n">>

\* line 145 and line 156: what follows a response in the output file
LoopSeparator == <<"\n", "\n">>
FlushSeparator == <<"\n">>

\* lines 165-177, then .strip() of line 144 or 155
Translated(r) == strip(strip(r))

TranslateInit ==
    /\ op = "translate"
    /\ pc = "start"
    /\ openai_client \in BOOLEAN
    /\ exists \in BOOLEAN
    /\ infile \in (IF exists THEN InputFiles ELSE {<<>>})
    /\ outfile \in {NoFile, OldOutput}
    /\ pos = 0
    /\ dialogue_blocks = <<>>
    /\ current_block = <<>>
    /\ request = <<>>
    /\ batches = <<>>
    /\ responses = <<>>
    /\ error = "none"
    /\ result = Pending
    /\ seconds = <<0, 0>>
    /\ formatted = <<>>
    /\ segments = <<>>
    /\ audio = FALSE
    /\ tracks = <<>>
    /\ extracted = <<>>

Rest == << seconds, formatted, segments, audio, tracks, extracted >>

\* a start that opens the output file before it looks for the input file
translate_start_OpensFirst ==
    /\ op = "translate" /\ pc = "start"
    /\ IF ~openai_client
       THEN /\ error' = "no_client"
            /\ result' = None
            /\ pc' = "done"
            /\ UNCHANGED outfile
       ELSE IF ~exists
       THEN /\ outfile' = <<>>
            /\ error' = "not_found"
            /\ result' = None
            /\ pc' = "done"
       ELSE /\ outfile' = <<>>
            /\ pc' = "loop"
            /\ UNCHANGED << error, result >>
    /\ UNCHANGED << op, openai_client, exists, infile, pos, dialogue_blocks,
                    current_block, request, batches, responses, Rest >>

\* lines 111-125: the two guards, then both files are opened
translate_start ==
    /\ op = "translate" /\ pc = "start"
    /\ IF ~openai_client
       THEN /\ error' = "no_client"
            /\ result' = None
            /\ pc' = "done"
            /\ UNCHANGED outfile
       ELSE IF ~exists
       THEN /\ error' = "not_found"
            /\ result' = None
            /\ pc' = "done"
            /\ UNCHANGED outfile
       ELSE /\ outfile' = <<>>
            /\ pc' = "loop"
            /\ UNCHANGED << error, result >>
    /\ UNCHANGED << op, openai_client, exists, infile, pos, dialogue_blocks,
                    current_block, request, batches, responses, Rest >>

\* lines 127-143: one iteration of the for loop up to the call of line 141
read_line ==
    /\ op = "translate" /\ pc = "loop"
    /\ pos < Len(infile)
    /\ LET line == infile[pos + 1]
           blocks == ClassifyBlocks(line, current_block, dialogue_blocks)
       IN /\ current_block' = ClassifyCurrent(line, current_block)
          /\ dialogue_blocks' = blocks
          /\ pos' = pos + 1
          /\ IF BatchFull(blocks)
             THEN /\ request' = join(blocks)
                  /\ batches' = Append(batches, blocks)
                  /\ pc' = "call"
             ELSE UNCHANGED << request, batches, pc >>
    /\ UNCHANGED << op, openai_client, exists, infile, outfile, responses,
                    error, result, Rest >>

\* lines 141-146: the call returns, the response is written, the list is reset
call_returns ==
    /\ op = "translate" /\ pc = "call"
    /\ \E r \in Responses :
          /\ responses' = Append(responses, r)
          /\ outfile' = outfile \o Translated(r) \o LoopSeparator
    /\ dialogue_blocks' = <<>>
    /\ request' = <<>>
    /\ pc' = "loop"
    /\ UNCHANGED << op, openai_client, exists, infile, pos, current_block,
                    batches, error, result, Rest >>

\* lines 148-153 and 158-159: the input is exhausted
end_of_input ==
    /\ op = "translate" /\ pc = "loop"
    /\ pos = Len(infile)
    /\ LET blocks == CloseLast(current_block, dialogue_blocks)
       IN /\ dialogue_blocks' = blocks
          /\ IF blocks # <<>>
             THEN /\ request' = join(blocks)
                  /\ batches' = Append(batches, blocks)
                  /\ pc' = "flush"
                  /\ UNCHANGED result
             ELSE /\ result' = "output_path"
                  /\ pc' = "done"
                  /\ UNCHANGED << request, batches >>
    /\ UNCHANGED << op, openai_client, exists, infile, pos, current_block,
                    outfile, responses, error, Rest >>

\* lines 152-159: the last call returns, the response is written
flush_returns ==
    /\ op = "translate" /\ pc = "flush"
    /\ \E r \in Responses :
          /\ responses' = Append(responses, r)
          /\ outfile' = outfile \o Translated(r) \o FlushSeparator
    /\ request' = <<>>
    /\ result' = "output_path"
    /\ pc' = "done"
    /\ UNCHANGED << op, openai_client, exists, infile, pos, dialogue_blocks,
                    current_block, batches, error, Rest >>

\* a handler that prints and lets the loop go on with the next batch
call_raises_GoesOn ==
    /\ op = "translate" /\ pc = "call"
    /\ error' = "exception"
    /\ dialogue_blocks' = <<>>
    /\ request' = <<>>
    /\ pc' = "loop"
    /\ UNCHANGED << op, openai_client, exists, infile, pos, current_block,
                    outfile, batches, responses, result, Rest >>

\* lines 161-163: the call raises, the handler prints and returns None
call_raises ==
    /\ op = "translate" /\ pc \in {"call", "flush"}
    /\ error' = "exception"
    /\ result' = None
    /\ pc' = "done"
    /\ request' = <<>>
    /\ UNCHANGED << op, openai_client, exists, infile, pos, dialogue_blocks,
                    current_block, outfile, batches, responses, Rest >>

----------------------------------------------------------------------------
(* _format_time.                                                            *)

\* A float of seconds is the pair <<whole, frac>>: int(seconds) and the
\* fractional part seconds % 1 counted in units of 1/FracUnit second.
FracUnit == 10000

\* the largest hour count of an input of _format_time
MaxHours == 100

DigitChars == <<"0", "1", "2", "3", "4", "5", "6", "7", "8", "9">>

\* str(n) for n >= 0
RECURSIVE Decimal(_)
Decimal(n) ==
    IF n < 10 THEN <<DigitChars[n + 1]>>
    ELSE Decimal(n \div 10) \o <<DigitChars[(n % 10) + 1]>>

\* the format specs :02d and :03d: zero-padded to at least w characters
RECURSIVE ZeroPad(_, _)
ZeroPad(s, w) == IF Len(s) >= w THEN s ELSE ZeroPad(<<"0">> \o s, w)

\* milliseconds rounded to the nearest instead of cut off
Milliseconds_Rounded(sec) == (sec[2] * 1000 + FracUnit \div 2) \div FracUnit

\* line 180
Milliseconds(sec) == (sec[2] * 1000) \div FracUnit

\* line 181
TotalSeconds(sec) == sec[1]

\* lines 179-184
format_time(sec) ==
    LET milliseconds == Milliseconds(sec)
        total_seconds == TotalSeconds(sec)
        minutes0 == total_seconds \div 60
        secs == total_seconds % 60
        hours == minutes0 \div 60
        minutes == minutes0 % 60
    IN ZeroPad(Decimal(hours), 2) \o <<":">> \o ZeroPad(Decimal(minutes), 2)
       \o <<":">> \o ZeroPad(Decimal(secs), 2) \o <<",">>
       \o ZeroPad(Decimal(milliseconds), 3)

TimeInputs ==
    {<<h * 3600 + m * 60 + s, f>> :
        h \in {0, 1, 99, MaxHours}, m \in {0, 1, 59}, s \in {0, 1, 59},
        f \in {0, 1, 9, 10, 5000, 9989, 9990, 9994, 9999}}

Idle ==
    /\ openai_client = FALSE
    /\ exists = FALSE
    /\ infile = <<>>
    /\ outfile = NoFile
    /\ pos = 0
    /\ dialogue_blocks = <<>>
    /\ current_block = <<>>
    /\ request = <<>>
    /\ batches = <<>>
    /\ responses = <<>>
    /\ error = "none"
    /\ result = Pending
    /\ segments = <<>>
    /\ audio = FALSE
    /\ tracks = <<>>
    /\ extracted = <<>>

TimeInit ==
    /\ op = "format_time"
    /\ pc = "start"
    /\ seconds \in TimeInputs
    /\ formatted = <<>>
    /\ Idle

\* a call of _format_time, as lines 94-95 make it
call_format_time ==
    /\ op = "format_time" /\ pc = "start"
    /\ formatted' = format_time(seconds)
    /\ pc' = "done"
    /\ UNCHANGED << op, openai_client, exists, infile, pos, dialogue_blocks,
                    current_block, outfile, request, batches, responses, error,
                    result, seconds, segments, audio, tracks, extracted >>

SpecTime == TimeInit /\ [][call_format_time]_vars

----------------------------------------------------------------------------
(* generate_subtitles_with_whisper.                                         *)

Raised == "raised"

\* the lines Python's iteration over a file yields: each up to and with its "\n"
RECURSIVE LinesFrom(_, _)
LinesFrom(text, line) ==
    IF text = <<>> THEN (IF line = <<>> THEN <<>> ELSE <<line>>)
    ELSE IF Head(text) = "\n"
         THEN <<Append(line, "\n")>> \o LinesFrom(Tail(text), <<>>)
         ELSE LinesFrom(Tail(text), Append(line, Head(text)))

Lines(text) == LinesFrom(text, <<>>)

\* lines 94-97: the text written for segment i
SegmentIndex(i) == Decimal(i)
SegmentTime(seg) ==
    format_time(seg.start) \o <<" ", "-", "-", ">", " ">> \o format_time(seg.end)
SegmentText(seg) == strip(seg.text)
Entry(i, seg) ==
    SegmentIndex(i) \o <<"\n">> \o SegmentTime(seg) \o <<"\n">>
    \o SegmentText(seg) \o <<"\n", "\n">>

\* lines 92-97: the content of the .srt file
RECURSIVE Written(_, _)
Written(segs, i) ==
    IF i > Len(segs) THEN <<>> ELSE Entry(i, segs[i]) \o Written(segs, i + 1)

SegmentTimes == {<<<<0, 0>>, <<1, 2000>>>>, <<<<3661, 5000>>, <<3662, 0>>>>}
SegmentTexts == {<<" ", "H", "i", " ">>, <<"4", "2">>, <<"o", "k">>}
Segments ==
    {[start |-> t[1], end |-> t[2], text |-> x] : t \in SegmentTimes, x \in SegmentTexts}
SegmentLists == {<<a>> : a \in Segments} \cup {<<a, b>> : a \in Segments, b \in Segments}

WhisperInit ==
    /\ op = "whisper"
    /\ pc = "start"
    /\ openai_client \in BOOLEAN
    /\ exists \in BOOLEAN
    /\ segments \in SegmentLists
    /\ infile = <<>>
    /\ outfile = NoFile
    /\ pos = 0
    /\ dialogue_blocks = <<>>
    /\ current_block = <<>>
    /\ request = <<>>
    /\ batches = <<>>
    /\ responses = <<>>
    /\ error = "none"
    /\ result = Pending
    /\ seconds = <<0, 0>>
    /\ formatted = <<>>
    /\ audio = FALSE
    /\ tracks = <<>>
    /\ extracted = <<>>

\* lines 70-74: the guard is outside the try block
whisper_start ==
    /\ op = "whisper" /\ pc = "start"
    /\ IF ~exists
       THEN /\ result' = Raised
            /\ pc' = "done"
       ELSE /\ pc' = "extract_audio"
            /\ UNCHANGED result
    /\ UNCHANGED << op, openai_client, exists, infile, pos, dialogue_blocks,
                    current_block, outfile, request, batches, responses, error,
                    seconds, formatted, segments, audio, tracks, extracted >>

\* lines 77-78 and 57-67: ffmpeg writes the wav file, or fails (check=True
\* raises), leaving a partial wav file or none; lines 104-108 then remove it
whisper_extract_audio ==
    /\ op = "whisper" /\ pc = "extract_audio"
    /\ \E ok \in BOOLEAN :
          IF ok
          THEN /\ audio' = TRUE
               /\ pc' = "transcribe"
               /\ UNCHANGED << error, result >>
          ELSE /\ audio' = FALSE
               /\ error' = "exception"
               /\ result' = None
               /\ pc' = "done"
    /\ UNCHANGED << op, openai_client, exists, infile, pos, dialogue_blocks,
                    current_block, outfile, request, batches, responses,
                    seconds, formatted, segments, tracks, extracted >>

\* lines 80-102: the model transcribes and the .srt file is written, or the
\* model raises and lines 104-108 remove the wav file
whisper_transcribe ==
    /\ op = "whisper" /\ pc = "transcribe"
    /\ \E ok \in BOOLEAN :
          IF ok
          THEN /\ infile' = Lines(Written(segments, 1))
               /\ result' = "output_srt_path"
               /\ UNCHANGED error
          ELSE /\ error' = "exception"
               /\ result' = None
               /\ UNCHANGED infile
    /\ audio' = FALSE
    /\ pc' = "done"
    /\ UNCHANGED << op, openai_client, exists, pos, dialogue_blocks,
                    current_block, outfile, request, batches, responses,
                    seconds, formatted, segments, tracks, extracted >>

\* lines 219-228: the user then has the generated .srt file translated
translate_generated ==
    /\ op = "whisper" /\ pc = "done" /\ result = "output_srt_path"
    /\ openai_client
    /\ op' = "translate"
    /\ pc' = "start"
    /\ exists' = TRUE
    /\ result' = Pending
    /\ UNCHANGED << openai_client, infile, pos, dialogue_blocks, current_block,
                    outfile, request, batches, responses, error, seconds,
                    formatted, segments, audio, tracks, extracted >>

----------------------------------------------------------------------------
(* extract_subtitles_from_mkv.                                              *)

\* the track ids mkvmerge may list
TrackLists == {<<>>, <<"2">>, <<"2", "3">>}

ExtractInit ==
    /\ op = "extract"
    /\ pc = "start"
    /\ exists \in BOOLEAN
    /\ openai_client = FALSE
    /\ infile = <<>>
    /\ outfile = NoFile
    /\ pos = 0
    /\ dialogue_blocks = <<>>
    /\ current_block = <<>>
    /\ request = <<>>
    /\ batches = <<>>
    /\ responses = <<>>
    /\ error = "none"
    /\ result = Pending
    /\ seconds = <<0, 0>>
    /\ formatted = <<>>
    /\ segments = <<>>
    /\ audio = FALSE
    /\ tracks = <<>>
    /\ extracted = <<>>

\* lines 44-46 and 26-41: mkvmerge lists the tracks of an existing file; when
\* it cannot be run the handler of lines 39-41 prints and returns []
extract_start ==
    /\ op = "extract" /\ pc = "start"
    /\ \E ran \in BOOLEAN :
          IF ran
          THEN /\ tracks' \in (IF exists THEN TrackLists ELSE {<<>>})
               /\ UNCHANGED error
          ELSE /\ tracks' = <<>>
               /\ error' = "exception"
    /\ extracted' = <<>>
    /\ pc' = "tracks"
    /\ UNCHANGED << op, openai_client, exists, infile, pos, dialogue_blocks,
                    current_block, outfile, request, batches, responses, result,
                    seconds, formatted, segments, audio >>

\* lines 48-53: one track; the exit status of mkvextract is not looked at, and
\* an mkvextract that cannot be started raises out of subprocess.run
extract_track ==
    /\ op = "extract" /\ pc = "tracks"
    /\ tracks # <<>>
    /\ \E outcome \in {"ok", "exit_status", "not_started"} :
          IF outcome = "not_started"
          THEN /\ result' = Raised
               /\ pc' = "done"
               /\ UNCHANGED << tracks, extracted >>
          ELSE /\ extracted' = Append(extracted, <<Head(tracks), outcome>>)
               /\ tracks' = Tail(tracks)
               /\ UNCHANGED << result, pc >>
    /\ UNCHANGED << op, openai_client, exists, infile, pos, dialogue_blocks,
                    current_block, outfile, request, batches, responses, error,
                    seconds, formatted, segments, audio >>

\* line 55
extract_return ==
    /\ op = "extract" /\ pc = "tracks"
    /\ tracks = <<>>
    /\ result' = "extracted_subtitles"
    /\ pc' = "done"
    /\ UNCHANGED << op, openai_client, exists, infile, pos, dialogue_blocks,
                    current_block, outfile, request, batches, responses, error,
                    seconds, formatted, segments, audio, tracks, extracted >>

----------------------------------------------------------------------------
Init == TranslateInit \/ WhisperInit \/ ExtractInit

Next ==
    \/ translate_start
    \/ read_line
    \/ call_returns
    \/ end_of_input
    \/ flush_returns
    \/ call_raises
    \/ whisper_start
    \/ whisper_extract_audio
    \/ whisper_transcribe
    \/ translate_generated
    \/ extract_start
    \/ extract_track
    \/ extract_return

Spec == Init /\ [][Next]_vars

----------------------------------------------------------------------------
(* What the claims speak of.                                                *)

RECURSIVE Flatten(_)
Flatten(ss) == IF ss = <<>> THEN <<>> ELSE Head(ss) \o Flatten(Tail(ss))

IsBlank(line) == strip(line) = <<>>
IsIndex(line) == isdigit(strip(line))

\* the lines of a file that are not blank, in order
NonBlank(lines) == SelectSeq(lines, LAMBDA l : ~IsBlank(l))

\* The chunks of a line sequence as section 4.2 of the specification gives
\* them: a chunk starts at the first non-blank line and at every all-digit
\* line, and runs up to the line before the next start.
RECURSIVE ChunkEnd(_, _)
ChunkEnd(nb, j) ==
    IF j > Len(nb) \/ IsIndex(nb[j]) THEN j - 1 ELSE ChunkEnd(nb, j + 1)
RECURSIVE ChunksFrom(_, _)
ChunksFrom(nb, i) ==
    IF i > Len(nb) THEN <<>>
    ELSE <<Flatten(SubSeq(nb, i, ChunkEnd(nb, i + 1)))>>
         \o ChunksFrom(nb, ChunkEnd(nb, i + 1) + 1)
Chunks(lines) == ChunksFrom(NonBlank(lines), 1)

\* the number of chunks of a line sequence
ChunkCount(lines) ==
    Cardinality({i \in 1..Len(lines) :
        /\ ~IsBlank(lines[i])
        /\ IsIndex(lines[i]) \/ \A j \in 1..(i - 1) : IsBlank(lines[j])})

Consumed == SubSeq(infile, 1, pos)

InLoop == op = "translate" /\ pc \in {"loop", "call"}
Flushing == op = "translate" /\ pc = "flush"
Succeeded == op = "translate" /\ pc = "done" /\ result = "output_path"
Failed == op = "translate" /\ error = "exception"

\* the chunks closed and not yet sent, and the open one
Waiting == IF pc = "loop" THEN dialogue_blocks ELSE <<>>
Open == IF current_block # <<>> THEN <<current_block>> ELSE <<>>

\* every chunk the classifier has made of the lines consumed so far
ChunksSoFar ==
    IF InLoop THEN Flatten(batches) \o Waiting \o Open ELSE Flatten(batches)

\* C1: with a translate call that always returns, every chunk of the input
\* is sent in exactly one batch and the batches, concatenated in call order,
\* are the chunks of the input in source order, the chunk still open at the
\* end of the input included: once the last batch is sent, and when the
\* run has succeeded.
C1_EveryChunkInOneBatchInOrder ==
    (Succeeded \/ Flushing) => Flatten(batches) = Chunks(infile)

C1_Witness ==
    /\ Succeeded
    /\ Len(batches) = 3
    /\ Len(infile) = MaxLines
    /\ \E i, j \in 1..Len(Flatten(batches)) : Flatten(batches)[i] # Flatten(batches)[j]

\* C2: every batch handed to _translate_block holds 1 to 5 chunks, every
\* batch but the last one of the file holds exactly 5 (so does every batch
\* sent from inside the loop), and dialogue_blocks never holds more than 5.
C2_BatchSizes ==
    /\ Len(dialogue_blocks) <= BatchSize
    /\ \A i \in 1..Len(batches) :
          /\ Len(batches[i]) >= 1
          /\ Len(batches[i]) <= BatchSize
          /\ i < Len(batches) => Len(batches[i]) = BatchSize
          /\ InLoop => Len(batches[i]) = BatchSize

C2_Witness ==
    /\ Succeeded
    /\ Len(batches) = 3
    /\ Len(batches[1]) = BatchSize
    /\ Len(batches[2]) = BatchSize
    /\ Len(batches[3]) = 1

\* the output file when the trimmed response i is followed by seps[i]
RECURSIVE OutputFrom(_, _)
OutputFrom(i, seps) ==
    IF i > Len(responses) THEN <<>>
    ELSE strip(responses[i]) \o seps[i] \o OutputFrom(i + 1, seps)

\* C3 as claimed: the response of a batch of 5 chunks is followed by two
\* newlines and only the response of a batch of fewer than 5 chunks by one.
C3_SeparatorBySize ==
    (op = "translate" /\ pc \in {"loop", "call", "flush", "done"} /\ openai_client /\ exists)
    => outfile = OutputFrom(1, [i \in 1..Len(batches) |->
                    IF Len(batches[i]) = BatchSize THEN <<"\n", "\n">> ELSE <<"\n">>])

\* C3 amended: the response of every batch sent from inside the loop is
\* followed by two newlines, and the response of the batch sent once the
\* source is exhausted (the last batch of the file, of 1 to 5 chunks) by a
\* single newline, also when that batch is full.
C3_SeparatorByPlace ==
    (op = "translate" /\ pc \in {"loop", "call", "flush", "done"} /\ openai_client /\ exists)
    => outfile = OutputFrom(1, [i \in 1..Len(batches) |->
                    IF Succeeded /\ i = Len(batches) THEN <<"\n">> ELSE <<"\n", "\n">>])

C3_Witness ==
    /\ Succeeded
    /\ Len(batches) = 2
    /\ Len(batches[2]) = BatchSize
    /\ responses[2] = <<" ", "T", "\n">>

\* C4: a successful run on an input of n chunks makes ceil(n/5) translate
\* calls, each of which returned; an input without chunks makes none.
C4_CallCount ==
    Succeeded =>
        LET n == ChunkCount(infile)
        IN /\ Len(batches) * BatchSize >= n
           /\ (Len(batches) - 1) * BatchSize < n
           /\ Len(responses) = Len(batches)
           /\ n = 0 => batches = <<>>

C4_Witness ==
    /\ Succeeded
    /\ ChunkCount(infile) = 2 * BatchSize
    /\ Len(batches) = 2

\* C5: when the translate call raises on the k-th batch the run is over: no
\* call follows (the calls made are the k-1 that returned and the one that
\* raised), the result is None, and the output file holds the responses of
\* the k-1 earlier batches, each followed by two newlines.
C5_FailureStops ==
    Failed =>
        /\ pc = "done"
        /\ result = None
        /\ request = <<>>
        /\ Len(batches) = Len(responses) + 1
        /\ outfile = OutputFrom(1, [i \in 1..Len(batches) |-> <<"\n", "\n">>])

C5_Witness ==
    /\ Failed
    /\ Len(responses) = 2
    /\ pos = Len(infile)

\* C6: without a client, or with an input path that does not exist,
\* translate_subtitles makes no translate call, leaves the output file as it
\* was (absent or with its old content) and returns None.
C6_GuardsTouchNothing ==
    [][(op = "translate" /\ (~openai_client \/ ~exists))
          => /\ outfile' = outfile
             /\ batches' = batches
             /\ request' = <<>>
             /\ pc' = "done" => (result' = None /\ error' \in {"no_client", "not_found"})]_vars

C6_Witness ==
    /\ op = "translate" /\ pc = "done"
    /\ openai_client /\ ~exists
    /\ outfile = OldOutput
    /\ result = None

\* C7: no operation raises to its caller: a failure is reported and the
\* operation returns None.
C7_NothingPropagates ==
    /\ result # Raised
    /\ (pc = "done" /\ op \in {"whisper", "translate"} /\ ~exists)
          => (result = None /\ error # "none")

\* the three lines of the entry written for the only segment
OnlyEntryLines ==
    << SegmentIndex(1) \o <<"\n">>,
       SegmentTime(segments[1]) \o <<"\n">>,
       SegmentText(segments[1]) \o <<"\n">> >>

\* C8: the file written for one segment with a non-empty text of one line,
\* read back by translate_subtitles, is one chunk: its index line, its time
\* line and its text line.
C8_RoundTrip ==
    (Succeeded /\ Len(segments) = 1 /\ SegmentText(segments[1]) # <<>>)
    => batches = << <<Flatten(OnlyEntryLines)>> >>

DigitValue(c) == CHOOSE d \in 0..9 : DigitChars[d + 1] = c
RECURSIVE Number(_)
Number(s) ==
    IF s = <<>> THEN 0 ELSE 10 * Number(SubSeq(s, 1, Len(s) - 1)) + DigitValue(s[Len(s)])

C10_Classifier ==
    (InLoop \/ Flushing \/ Succeeded) =>
        LET cs == ChunksSoFar
        IN /\ Flatten(cs) = Flatten(NonBlank(Consumed))
           /\ \A k \in 1..Len(cs) :
                 LET ls == Lines(cs[k])
                 IN /\ ls # <<>>
                    /\ \A j \in 1..Len(ls) : ~IsBlank(ls[j])
                    /\ \A j \in 2..Len(ls) : ~IsIndex(ls[j])
                    /\ k > 1 => IsIndex(ls[1])

C10_Witness ==
    /\ Succeeded
    /\ Len(infile) >= 4
    /\ infile[1] = TimeLine
    /\ infile[3] = BlankLine
    /\ infile[4] = IndexLine
    /\ Len(batches) = 2

====
